---- MODULE Spec2Model ----
(***************************************************************************)
(* Run orchestration of the Atmos encoder command line (src/main.py).      *)
(*                                                                         *)
(* A run is one execution of main.py.  Runs share the script directory     *)
(* (where the decoder and the ADM converter drop their output), the        *)
(* output directory ddp_encode and the binaries directory.  A file is a    *)
(* triple <<stem, ext, owner>>: its name is stem.ext and owner is the run  *)
(* that wrote its content (0: a file that was there before any run).       *)
(* A Python value is a pair <<type, number>>: <<"none", 0>> is None,       *)
(* <<"int", n>> the integer n and <<"str", n>> the string str(n).          *)
(***************************************************************************)
EXTENDS Integers, Sequences, FiniteSets, TLC

\* ---------------------------------------------------------------- bounds
MaxLines == 2          \* lines of decoder info output that are scanned
MaxMissing == 1        \* binaries absent from the binaries directory
MaxScanLines == 4      \* presentation and dialogue lines of the longer scans
MaxStreamLines == 3    \* lines read from a streaming subprocess
MaxElapsed == 3        \* seconds elapsed while a subprocess is streamed
PipeCapacity == 2      \* lines an operating-system pipe holds before a write blocks
MaxOutput == 3         \* lines a child process writes to one of its descriptors

\* ------------------------------------------------------------- constants
Runs == {1, 2}

required_tools ==
    <<"truehdd", "ffmpeg", "ffprobe", "dee", "cmdline_atmos_conversion_tool">>

Tools == {required_tools[i] : i \in DOMAIN required_tools}

AtmosExts == {"atmos", "atmos.metadata", "atmos.audio"}

None == <<"none", 0>>
PyInt(n) == <<"int", n>>
PyStr(n) == <<"str", n>>
NoFile == <<"None", "">>

\* Python truthiness of None and of an int: None and 0 are false.
Truthy(v) == v[1] # "none" /\ ~(v[1] = "int" /\ v[2] = 0)

\* os.path.splitext(input_name)[0] for a file, input_name for a folder.
base_name(r) == IF r = 1 THEN "movieA" ELSE "movieB"

\* ----------------------------------------------------------- directories
Name(f) == <<f[1], f[2]>>
Exists(dir, n) == \E f \in dir : Name(f) = n
Without(dir, n) == {f \in dir : Name(f) # n}
Owner(dir, n) == (CHOOSE f \in dir : Name(f) = n)[3]
WriteFile(dir, n, o) == Without(dir, n) \cup {<<n[1], n[2], o>>}
EndsWith(dir, exts) == {f \in dir : f[2] \in exts}
Names(files) == {Name(f) : f \in files}

\* Files of another run among `files`.
Foreign(r, files) == {f \in files : f[3] \notin {r, 0}}

VARIABLES
    binDir,                 \* binaries present in BIN_DIR
    scriptDir,              \* files in SCRIPT_DIR (the working directory)
    outDir,                 \* files in OUTPUT_DIR
    inDir,                  \* per run: files of the input folder
    yaml,                   \* per content owner: what its main .atmos file holds
    args,                   \* per run: parsed command line
    info,                   \* per run: what `truehdd info` prints for the input
    pc,                     \* per run: position in main.py
    exitCode,               \* per run: -1 while running, then the exit status
    toolIdx,                \* per run: index in required_tools
    atmos_flag,
    last_presentation_num,
    last_dialogue_level,
    decode_cmd,             \* per run: arguments of the decode command
    decoded_atmos_file,
    decoded_audio_file,
    cleanup_targets,
    cur,                    \* per run: the encode stage in progress
    spawned,                \* per run: subprocesses started so far
    alive,                  \* per run: subprocesses not known to have exited
    terminated,             \* per run: subprocesses on which terminate() was called
    log,                    \* per run: messages printed
    h,                      \* per run: history of the run (observation only)
    stream,                 \* a streaming function followed line by line
    renameCall,             \* a call of safe_rename on paths of given devices
    pipe                    \* a child process and the pipes Popen gave it

fsVars == <<scriptDir, outDir, inDir>>
scanVars == <<atmos_flag, last_presentation_num, last_dialogue_level>>
fileVars == <<decoded_atmos_file, decoded_audio_file>>
procVars == <<spawned, alive, terminated>>
runVars == <<binDir, yaml, scriptDir, outDir, inDir, args, info, pc, exitCode,
             toolIdx, atmos_flag, last_presentation_num, last_dialogue_level,
             decode_cmd, decoded_atmos_file, decoded_audio_file, cleanup_targets,
             cur, spawned, alive, terminated, log, h>>
utilVars == <<stream, renameCall, pipe>>
vars == <<runVars, utilVars>>

\* ------------------------------------------------------- small updates
Goto(r, p) == pc' = [pc EXCEPT ![r] = p]
SysExit(r, code) ==
    /\ pc' = [pc EXCEPT ![r] = "exited"]
    /\ exitCode' = [exitCode EXCEPT ![r] = code]
Say(r, msgs) == log' = [log EXCEPT ![r] = @ \cup msgs]
Spawn(r, procs) == spawned' = [spawned EXCEPT ![r] = @ \cup procs]
Note(r, field, v) == h' = [h EXCEPT ![r][field] = v]
NoteAdd(r, field, vs) == h' = [h EXCEPT ![r][field] = @ \cup vs]

\* ------------------------------------------------------------ the inputs
ArgSet ==
    [truehd_atmos : BOOLEAN,
     atmos_mode : {"5.1", "7.1", "both"},
     disable_dbfs : BOOLEAN,
     input : {"file", "folder", "badfile", "missing"}]

IdleArgs ==
    [truehd_atmos |-> FALSE, atmos_mode |-> "both", disable_dbfs |-> FALSE,
     input |-> "file"]

\* What an input folder may hold.
FolderNames == {<<"mix", e>> : e \in AtmosExts \cup {"wav"}}
FolderChoices(r) == {{<<n[1], n[2], r>> : n \in ns} : ns \in SUBSET FolderNames}

\* What the script directory may hold before a run: nothing, or the main
\* Atmos file an earlier, aborted run left behind.
StrayChoices == {{}, {<<"ddp_encode", "atmos", 0>>}}

\* A line of `truehdd info` output, by what the scan reads in it:
\*   <<"atmos", t>>    contains "Dolby Atmos"; last token t (1 true, 0 false,
\*                     2 True with a capital)
\*   <<"pres", n>>     "Presentation n"
\*   <<"presbad", 0>>  "Presentation x", x not an integer
\*   <<"dial", v>>     contains "Dialogue Level"; second-to-last token v
\*   <<"dialbad", 0>>  contains "Dialogue Level"; that token is no integer
\*   <<"other", 0>>    anything else
InfoLines ==
    {<<"atmos", 1>>, <<"atmos", 0>>, <<"atmos", 2>>, <<"pres", 0>>, <<"pres", 1>>,
     <<"presbad", 0>>, <<"dial", -40>>, <<"dial", -27>>, <<"dial", 3>>,
     <<"dialbad", 0>>, <<"other", 0>>}

RECURSIVE SeqsUpTo(_, _)
SeqsUpTo(S, n) ==
    IF n = 0 THEN {<<>>}
    ELSE LET shorter == SeqsUpTo(S, n - 1)
         IN shorter \cup {Append(q, x) : q \in shorter, x \in S}

InfoOutputs == SeqsUpTo(InfoLines, MaxLines)

\* What the output directory may hold before a run: nothing, or the 5.1
\* deliverable an earlier run of the same input left there.
StaleChoices == {{}, {<<"movieA_atmos_5_1", "mp4", 0>>}}

\* The content of a main .atmos file, by what the metadata patch reads in
\* it: beds is the scBedConfiguration of each presentation in turn (<<>> for
\* a presentation without the key), objects the IDs of the object list of
\* the first presentation.
Owners == {0} \cup Runs
StandardBed == <<0, 1, 2, 3, 6, 7, 4, 5>>
StandardYaml == [beds |-> <<StandardBed>>, objects |-> <<10, 11>>]
YamlChoices ==
    {[beds |-> b, objects |-> <<10, 11>>] :
        b \in {<<>>, <<StandardBed>>, <<<<>>>>, <<<<0, 1, 2, 3, 4, 5, 6, 7>>>>,
               <<<<3>>, StandardBed>>}}

\* No streaming function followed, no call of safe_rename observed.
NoStream ==
    [fn |-> "none", last_dialogue_level |-> None, progress |-> 0,
     dialnorm_value |-> None, elapsed |-> 0, remaining |-> 0, bar |-> <<>>,
     extra_info |-> None, line |-> <<"none", 0>>, n |-> 0]
NoMove ==
    [srcDev |-> 1, dstDev |-> 1, atSrc |-> "none", atDst |-> "none",
     raised |-> "", calls |-> 0]

\* No child process: nothing left to write, empty pipes.
NoPipe ==
    [fn |-> "none", pending |-> [fd1 |-> 0, fd2 |-> 0],
     buf |-> [stdout |-> 0, stderr |-> 0], child |-> "exited",
     reader |-> "returned"]

NoCmd == [fmt |-> "none", presentation |-> None]

HistInit ==
    [jobs |-> {}, deeExit |-> {}, returned |-> {}, renameCalled |-> {},
     renamed |-> {}, canceled |-> {}, placed |-> {}, foreign |-> {},
     xmls |-> {}, patched |-> FALSE, decoded |-> FALSE, organized |-> FALSE,
     decodeExit |-> {}, replaced |-> {}, patch |-> <<>>,
     analyzed |-> FALSE, infoExit |-> {}]

\* A run's command line with the input it names: the files of an input
\* folder and, for a .thd/.mlp file of the default workflow, what
\* `truehdd info` prints for it.
Scenarios(r) ==
    LET folderArgs == {a \in ArgSet : a.input = "folder"}
        infoArgs == {a \in ArgSet : a.input = "file" /\ ~a.truehd_atmos}
    IN  {[args |-> a, folder |-> f, info |-> <<>>] :
            a \in folderArgs, f \in FolderChoices(r)}
        \cup {[args |-> a, folder |-> {}, info |-> i] :
            a \in infoArgs, i \in InfoOutputs}
        \cup {[args |-> a, folder |-> {}, info |-> <<>>] :
            a \in ArgSet \ (folderArgs \cup infoArgs)}

IdleScenario == [args |-> IdleArgs, folder |-> {}, info |-> <<>>]

\* The binaries directory with at most MaxMissing tools absent.
BinChoices == {Tools \ miss : miss \in {m \in SUBSET Tools : Cardinality(m) <= MaxMissing}}

\* The state after argument parsing (line 288) of the runs `on`, run r
\* started as sc[r].
InitWith(sc, on) ==
    /\ stream = NoStream
    /\ renameCall = NoMove
    /\ pipe = NoPipe
    /\ args = [r \in Runs |-> sc[r].args]
    /\ inDir = [r \in Runs |-> sc[r].folder]
    /\ info = [r \in Runs |-> sc[r].info]
    /\ pc = [r \in Runs |-> IF r \in on THEN "tools" ELSE "off"]
    /\ exitCode = [r \in Runs |-> -1]
    /\ toolIdx = [r \in Runs |-> 1]
    /\ atmos_flag = [r \in Runs |-> "None"]
    /\ last_presentation_num = [r \in Runs |-> None]
    /\ last_dialogue_level = [r \in Runs |-> None]
    /\ decode_cmd = [r \in Runs |-> NoCmd]
    /\ decoded_atmos_file = [r \in Runs |-> NoFile]
    /\ decoded_audio_file = [r \in Runs |-> NoFile]
    /\ cleanup_targets = [r \in Runs |-> <<>>]
    /\ cur = [r \in Runs |-> "none"]
    /\ spawned = [r \in Runs |-> {}]
    /\ alive = [r \in Runs |-> {}]
    /\ terminated = [r \in Runs |-> {}]
    /\ log = [r \in Runs |-> {}]
    /\ h = [r \in Runs |-> HistInit]

\* One run, of any command line, in any environment.  Nothing but the
\* binaries directory is read before the tool checks have passed, so the
\* rest of the environment is varied only where all the binaries are present;
\* the scan of the info output and the metadata patch read nothing of each
\* other, so the content of the .atmos file is varied for the inputs with at
\* most one line of info output.
Init ==
    \/ /\ binDir = Tools
       /\ scriptDir \in StrayChoices
       /\ outDir \in StaleChoices
       /\ yaml = [o \in Owners |-> StandardYaml]
       /\ \E s \in Scenarios(1) : InitWith(<<s, IdleScenario>>, {1})
    \/ /\ binDir = Tools
       /\ scriptDir \in StrayChoices
       /\ outDir \in StaleChoices
       /\ yaml \in {[o \in Owners |-> IF o = 1 THEN d ELSE StandardYaml] :
                        d \in YamlChoices \ {StandardYaml}}
       /\ \E s \in {x \in Scenarios(1) : Len(x.info) <= 1} :
             InitWith(<<s, IdleScenario>>, {1})
    \/ /\ binDir \in BinChoices \ {Tools}
       /\ scriptDir = {}
       /\ outDir = {}
       /\ yaml = [o \in Owners |-> StandardYaml]
       /\ \E s \in {x \in Scenarios(1) : x.info = <<>>} :
             InitWith(<<s, IdleScenario>>, {1})

\* --------------------------------------------------- tool checks (291-317)
\* check_tool: os.path.isfile(executable_path).
check_tool(tool) == tool \in binDir

\* The subprocesses the preflight loop starts once `tool` was found.
ProbeOf(tool) == IF tool = "dee" THEN {"dee_version"} ELSE {}

CheckTool(r) ==
    /\ pc[r] = "tools"
    /\ LET tool == required_tools[toolIdx[r]] IN
       \/ /\ ~check_tool(tool)
          /\ Say(r, {"missing_tool"})
          /\ SysExit(r, 1)
          /\ UNCHANGED <<toolIdx, spawned>>
       \/ /\ check_tool(tool)
          /\ Spawn(r, ProbeOf(tool))
          /\ IF toolIdx[r] < Len(required_tools)
             THEN /\ toolIdx' = [toolIdx EXCEPT ![r] = @ + 1]
                  /\ UNCHANGED pc
             ELSE /\ Goto(r, IF args[r].truehd_atmos THEN "t_input" ELSE "input")
                  /\ UNCHANGED toolIdx
          /\ UNCHANGED <<exitCode, log>>
    /\ UNCHANGED <<utilVars, binDir, yaml, fsVars, args, info, scanVars, decode_cmd, fileVars,
                   cleanup_targets, cur, alive, terminated, h>>

\* ------------------------------------------- input classification (433-454)
ClassifyInput(r) ==
    /\ pc[r] = "input"
    /\ \/ /\ \/ args[r].input = "badfile"
             \/ args[r].input = "folder" /\ inDir[r] = {}
          /\ Say(r, {"bad_input"})
          /\ SysExit(r, 1)
       \/ \* check_same_disk: another disk, or os.stat fails on a missing path
          /\ args[r].input # "badfile"
          /\ Say(r, {"different_disk"})
          /\ SysExit(r, 1)
       \/ /\ \/ args[r].input \in {"file", "missing"}
             \/ args[r].input = "folder" /\ inDir[r] # {}
          /\ Goto(r, "analyze")
          /\ UNCHANGED <<exitCode, log>>
    /\ UNCHANGED <<utilVars, binDir, yaml, fsVars, args, info, toolIdx, scanVars, decode_cmd,
                   fileVars, cleanup_targets, cur, procVars, h>>

\* ------------------------------------------------- stream analysis (456-499)
\* Line 470: line.split()[-1].lower().
AtmosToken(t) == IF t \in {1, 2} THEN "true" ELSE "false"

\* The flag taken for "true" when no line contains "Dolby Atmos".
AtmosFlagDefaultsTrue(lines) ==
    IF \E i \in DOMAIN lines : lines[i][1] = "atmos"
    THEN LET first == CHOOSE i \in DOMAIN lines :
                        /\ lines[i][1] = "atmos"
                        /\ \A j \in 1..(i - 1) : lines[j][1] # "atmos"
         IN AtmosToken(lines[first][2])
    ELSE "true"

\* The last line containing "Dolby Atmos" deciding instead of the first.
AtmosFlagOfLastLine(lines) ==
    IF \E i \in DOMAIN lines : lines[i][1] = "atmos"
    THEN LET last == CHOOSE i \in DOMAIN lines :
                        /\ lines[i][1] = "atmos"
                        /\ \A j \in (i + 1)..Len(lines) : lines[j][1] # "atmos"
         IN AtmosToken(lines[last][2])
    ELSE "None"

\* Lines 468-471: the first line containing "Dolby Atmos" decides.
RECURSIVE AtmosFlagOf(_)
AtmosFlagOf(lines) ==
    IF lines = <<>> THEN "None"
    ELSE IF Head(lines)[1] = "atmos" THEN AtmosToken(Head(lines)[2])
    ELSE AtmosFlagOf(Tail(lines))

\* The parsed value stored as it is.
LevelNotClamped(v) == v

\* Lines 485-486.
ClampLevel(v) == IF v < -31 THEN -31 ELSE v

\* The except branch storing the floor instead of 0.
ParsedLevelFloorOnError(line) ==
    IF line[1] = "dial" THEN PyStr(ClampLevel(line[2])) ELSE PyStr(-31)

\* Lines 482-489: the level stored by a "Dialogue Level" line.
ParsedLevel(line) ==
    IF line[1] = "dial" THEN PyStr(ClampLevel(line[2])) ELSE PyInt(0)

\* The scan keeping the first level and presentation it stored.
ScanLineKeepsFirst(line, disable, st) ==
    LET current == IF line[1] = "pres" THEN PyInt(line[2]) ELSE st.current
    IN  IF line[1] = "presbad" THEN st
        ELSE IF line[1] \in {"dial", "dialbad"} /\ current # None /\ ~disable
                /\ st.level = None
        THEN [current |-> current, pres |-> current, level |-> ParsedLevel(line)]
        ELSE [st EXCEPT !.current = current]

\* Lines 475-489: the body of the scan loop for one line.
ScanLine(line, disable, st) ==
    LET current == IF line[1] = "pres" THEN PyInt(line[2]) ELSE st.current
    IN  IF line[1] = "presbad" THEN st
        ELSE IF line[1] \in {"dial", "dialbad"} /\ current # None /\ ~disable
        THEN [current |-> current, pres |-> current, level |-> ParsedLevel(line)]
        ELSE [st EXCEPT !.current = current]

RECURSIVE ScanLines(_, _, _)
ScanLines(lines, disable, st) ==
    IF lines = <<>> THEN st
    ELSE ScanLines(Tail(lines), disable, ScanLine(Head(lines), disable, st))

\* Lines 491-492.
FinalLevel(level, disable) == IF disable THEN PyInt(0) ELSE level

\* A folder input given the level 0 of --disable-dbfs.
FolderLevelHonoursDisable(disable) == IF disable THEN PyInt(0) ELSE PyStr(-31)

\* Line 499: the level of a folder input.
FolderLevel(disable) == PyStr(-31)

\* The return code of the info command never ending the run.
InfoFailureIgnored(returncode) == FALSE

\* Lines 464-465 and 494-496: check=True raises CalledProcessError on a
\* non-zero return code.
InfoFailed(returncode) == returncode # 0

Analyze(r) ==
    /\ pc[r] = "analyze"
    /\ IF args[r].input # "folder"
       THEN /\ Spawn(r, {"info"})
            /\ \E returncode \in {0, 1} :
               /\ args[r].input = "missing" => returncode = 1
               /\ IF InfoFailed(returncode)
                  THEN
                  /\ Say(r, {"info_failed"})
                  /\ SysExit(r, 1)
                  /\ Note(r, "infoExit", {returncode})
                  /\ UNCHANGED scanVars
                  ELSE
                  /\ LET lines == info[r]
                           st == ScanLines(lines, args[r].disable_dbfs,
                                   [current |-> None, pres |-> None, level |-> None])
                       IN /\ atmos_flag' = [atmos_flag EXCEPT ![r] = AtmosFlagOf(lines)]
                          /\ last_presentation_num' =
                                [last_presentation_num EXCEPT ![r] = st.pres]
                          /\ last_dialogue_level' =
                                [last_dialogue_level EXCEPT ![r] =
                                    FinalLevel(st.level, args[r].disable_dbfs)]
                  /\ h' = [h EXCEPT ![r].analyzed = TRUE,
                                    ![r].infoExit = {returncode}]
                  /\ Goto(r, "decode")
                  /\ UNCHANGED <<exitCode, log>>
       ELSE /\ atmos_flag' = [atmos_flag EXCEPT ![r] =
                  IF EndsWith(inDir[r], {"atmos"}) # {} THEN "true" ELSE "false"]
            /\ last_dialogue_level' = [last_dialogue_level EXCEPT ![r] =
                  FolderLevel(args[r].disable_dbfs)]
            /\ Note(r, "analyzed", TRUE)
            /\ Goto(r, "decode")
            /\ UNCHANGED <<last_presentation_num, exitCode, log, spawned>>
    /\ UNCHANGED <<utilVars, binDir, yaml, fsVars, args, info, toolIdx, decode_cmd, fileVars,
                   cleanup_targets, cur, alive, terminated>>

\* -------------------------------------------------------- decoding (526-554)
\* Lines 529-537 and 544-549: the decode command.  str(None) is "None".
DecodeCmd(flag, pres) ==
    IF flag = "true"
    THEN [fmt |-> "atmos",
          presentation |-> IF Truthy(pres) THEN PyStr(pres[2]) ELSE None]
    ELSE [fmt |-> "w64",
          presentation |-> IF pres = None THEN <<"strNone", 0>> ELSE PyStr(pres[2])]

\* What a successful decode leaves in the script directory: --output-path is
\* the prefix SCRIPT_DIR/ddp_encode of the files the decoder writes.
DecodeOutput(fmt) ==
    IF fmt = "atmos" THEN {<<"ddp_encode", e>> : e \in AtmosExts}
    ELSE {<<"ddp_encode", "wav">>}

\* The return code of the decoder never ending the run.
DecodeFailureIgnored(returncode) == FALSE

\* Lines 540 and 551: decode_result.returncode != 0.
DecodeFailed(returncode) == returncode # 0

RECURSIVE WriteAll(_, _, _)
WriteAll(dir, names, o) ==
    IF names = {} THEN dir
    ELSE LET n == CHOOSE x \in names : TRUE
         IN WriteAll(WriteFile(dir, n, o), names \ {n}, o)

Decode(r) ==
    /\ pc[r] = "decode"
    /\ IF args[r].input # "folder"
       THEN LET cmd == DecodeCmd(atmos_flag[r], last_presentation_num[r]) IN
            /\ decode_cmd' = [decode_cmd EXCEPT ![r] = cmd]
            /\ Spawn(r, {"decode"})
            /\ \E returncode \in {0, 1} :
                  IF DecodeFailed(returncode)
                  THEN /\ Say(r, {"decode_failed"})
                       /\ SysExit(r, 1)
                       /\ Note(r, "decodeExit", {returncode})
                       /\ UNCHANGED scriptDir
                  ELSE /\ scriptDir' = IF returncode = 0
                             THEN WriteAll(scriptDir, DecodeOutput(cmd.fmt), r)
                             ELSE scriptDir
                       /\ h' = [h EXCEPT ![r].decoded = TRUE,
                                         ![r].decodeExit = {returncode}]
                       /\ Goto(r, "organize")
                       /\ UNCHANGED <<exitCode, log>>
       ELSE /\ Goto(r, "organize")
            /\ UNCHANGED <<decode_cmd, spawned, scriptDir, h, exitCode, log>>
    /\ UNCHANGED <<utilVars, binDir, yaml, outDir, inDir, args, info, toolIdx, scanVars, fileVars,
                   cleanup_targets, cur, alive, terminated>>

\* ----------------------------------------------- file organization (556-590)
MovedExts == AtmosExts \cup {"wav"}

\* Lines 569-590 for one search directory: st is <<outDir, decoded_audio_file,
\* decoded_atmos_file>> before, the result the same after.  The first .wav
\* becomes ddp_encode.wav, every other file keeps its name.
OrganizeDir(st, dir) ==
    LET files == EndsWith(dir, MovedExts)
        wavs == EndsWith(dir, {"wav"})
        first == IF st[2] = NoFile /\ wavs # {}
                 THEN {CHOOSE f \in wavs : TRUE} ELSE {}
        Target(f) == IF f \in first THEN <<"ddp_encode", "wav">> ELSE Name(f)
        targets == {Target(f) : f \in files}
        kept == {g \in st[1] : Name(g) \notin targets}
        atmos == EndsWith(files, {"atmos"})
    IN  << kept \cup {<<Target(f)[1], Target(f)[2], f[3]>> : f \in files},
           IF first # {} THEN <<"ddp_encode", "wav">> ELSE st[2],
           IF st[3] = NoFile /\ atmos # {}
           THEN Name(CHOOSE f \in atmos : TRUE) ELSE st[3] >>

\* The files of other runs that organizing `dir` moves or overwrites.
OrganizeForeign(r, st, dir) ==
    LET after == OrganizeDir(st, dir)
    IN  Foreign(r, EndsWith(dir, MovedExts)) \cup Foreign(r, st[1] \ after[1])

Organize(r) ==
    /\ pc[r] = "organize"
    /\ LET st0 == <<outDir, NoFile, NoFile>>
           st1 == IF args[r].input = "folder" THEN OrganizeDir(st0, inDir[r]) ELSE st0
           st2 == OrganizeDir(st1, scriptDir)
       IN /\ outDir' = st2[1]
          /\ inDir' = [inDir EXCEPT ![r] =
                IF args[r].input = "folder" THEN @ \ EndsWith(@, MovedExts) ELSE @]
          /\ scriptDir' = scriptDir \ EndsWith(scriptDir, MovedExts)
          /\ decoded_audio_file' = [decoded_audio_file EXCEPT ![r] = st2[2]]
          /\ decoded_atmos_file' = [decoded_atmos_file EXCEPT ![r] = st2[3]]
          /\ h' = [h EXCEPT
                ![r].organized = TRUE,
                ![r].placed = Names(EndsWith(scriptDir, AtmosExts))
                    \cup (IF args[r].input = "folder"
                          THEN Names(EndsWith(inDir[r], AtmosExts)) ELSE {}),
                ![r].foreign = @ \cup OrganizeForeign(r, st1, scriptDir)
                    \cup (IF args[r].input = "folder"
                          THEN OrganizeForeign(r, st0, inDir[r]) ELSE {})]
    /\ Goto(r, "patch")
    /\ UNCHANGED <<utilVars, binDir, yaml, args, info, exitCode, toolIdx, scanVars, decode_cmd,
                   cleanup_targets, cur, procVars, log>>

\* ------------------------------------------------- metadata patch (591-609)
\* range(a, b) as a list.
PyRange(a, b) == [i \in 1..(b - a) |-> a + i - 1]

\* Any list of eight channels passing for the standard bed.
IsAnyEightChannelBed(sc_config) == Len(sc_config) = Len(StandardBed)

\* atmos_editor.py, line 28.
IsStandardBed(sc_config) == sc_config = StandardBed

\* The patch without line 29: the bed configuration is left as it was found.
transform_keeping_bed(data) ==
    IF data.beds = <<>>
    THEN [data |-> data, changed |-> FALSE, written |-> FALSE]
    ELSE IF IsStandardBed(data.beds[1])
    THEN [data |-> [beds |-> data.beds, objects |-> PyRange(10, 21)],
          changed |-> TRUE, written |-> TRUE]
    ELSE [data |-> data, changed |-> FALSE, written |-> FALSE]

\* transform_atmos_file_inplace (atmos_editor.py 5-42) on the content `data`:
\* the content of the file afterwards, the value returned and whether the
\* file was opened for writing.
transform_atmos_file_inplace(data) ==
    IF data.beds = <<>>
    THEN [data |-> data, changed |-> FALSE, written |-> FALSE]
    ELSE IF IsStandardBed(data.beds[1])
    THEN [data |-> [beds |-> [data.beds EXCEPT ![1] = <<3>>],
                    objects |-> PyRange(10, 21)],
          changed |-> TRUE, written |-> TRUE]
    ELSE [data |-> data, changed |-> FALSE, written |-> FALSE]

\* The record of one call of the patch on the file `name` of the output
\* directory.
PatchCall(name) ==
    LET o == Owner(outDir, name)
        res == transform_atmos_file_inplace(yaml[o])
    IN  [owner |-> o, before |-> yaml[o], after |-> res.data,
         changed |-> res.changed, written |-> res.written]

\* The first encode stage of the Atmos branch (lines 617 and 634).
FirstAtmosStage(mode) == IF mode \in {"5.1", "both"} THEN "a51" ELSE "a71"

Patch(r) ==
    /\ pc[r] = "patch"
    /\ \/ \* line 599-601
          /\ decoded_atmos_file[r] = NoFile
          /\ Say(r, {"no_atmos_for_editing"})
          /\ SysExit(r, 1)
          /\ UNCHANGED <<cur, h, yaml>>
       \/ \* transform_atmos_file_inplace cannot open the file
          /\ decoded_atmos_file[r] # NoFile
          /\ ~Exists(outDir, decoded_atmos_file[r])
          /\ Say(r, {"traceback"})
          /\ SysExit(r, 1)
          /\ UNCHANGED <<cur, h, yaml>>
       \/ /\ decoded_atmos_file[r] # NoFile
          /\ Exists(outDir, decoded_atmos_file[r])
          /\ LET call == PatchCall(decoded_atmos_file[r]) IN
                /\ yaml' = [yaml EXCEPT ![call.owner] = call.after]
                /\ Say(r, {IF call.changed THEN "transformed" ELSE "no_changes"})
          /\ h' = [h EXCEPT
                ![r].patched = TRUE,
                ![r].patch = <<PatchCall(decoded_atmos_file[r])>>,
                ![r].foreign = @ \cup Foreign(r,
                    {f \in outDir : Name(f) = decoded_atmos_file[r]})]
          /\ IF atmos_flag[r] = "true"
             THEN /\ cur' = [cur EXCEPT ![r] = FirstAtmosStage(args[r].atmos_mode)]
                  /\ Goto(r, "xml")
                  /\ UNCHANGED exitCode
             ELSE /\ cur' = [cur EXCEPT ![r] = "ddp"]
                  /\ Goto(r, "ddp_check")
                  /\ UNCHANGED exitCode
    /\ UNCHANGED <<utilVars, binDir, fsVars, args, info, toolIdx, scanVars, decode_cmd,
                   fileVars, cleanup_targets, procVars>>

\* ------------------------------------------------------------ encode stages
\* The encode stages: Atmos 5.1 and 7.1 (617-649), DDP 5.1 (665-680) and
\* MLP Atmos 7.1 (397-416).
Stages == {"a51", "a71", "ddp", "mlp"}

XmlName(stage) ==
    CASE stage = "a51" -> <<"ddp_encode_atmos_5_1", "xml">>
      [] stage = "a71" -> <<"ddp_encode_atmos_7_1", "xml">>
      [] stage = "ddp" -> <<"ddp_encode_5_1", "xml">>
      [] stage = "mlp" -> <<"mlp_encode_atmos_7_1", "xml">>

\* The fixed name the encoder writes its output under.
EncoderOutput(stage) ==
    CASE stage = "a51" -> <<"ddp_encode_atmos_5_1", "mp4">>
      [] stage = "a71" -> <<"ddp_encode_atmos_7_1", "mp4">>
      [] stage = "ddp" -> <<"ddp_encode_5_1", "mp4">>
      [] stage = "mlp" -> <<"mlp_encode_atmos_7_1", "mlp">>

\* The name of the deliverable.
FinalName(r, stage) ==
    CASE stage = "a51" -> <<base_name(r) \o "_atmos_5_1", "mp4">>
      [] stage = "a71" -> <<base_name(r) \o "_atmos_7_1", "mp4">>
      [] stage = "ddp" -> <<base_name(r) \o "_5_1", "mp4">>
      [] stage = "mlp" -> <<base_name(r) \o "_atmos_7_1", "mlp">>

\* The custom_dialnorm the job description is given: last_dialogue_level for
\* the DDP jobs, the literal -31 of create_xml_mlp_atmos for the MLP job.
JobLevel(stage, level) == IF stage = "mlp" THEN PyStr(-31) ELSE level

\* The stages whose XML name is appended to cleanup_targets (399, 620, 637).
Listed(stage) == stage \in {"a51", "a71", "mlp"}

\* The file the job description names as its input.
JobInput(r, stage) ==
    IF stage = "ddp" THEN decoded_audio_file[r] ELSE decoded_atmos_file[r]

CreateXml(r) ==
    /\ pc[r] = "xml"
    /\ outDir' = WriteFile(outDir, XmlName(cur[r]), r)
    /\ cleanup_targets' = [cleanup_targets EXCEPT ![r] =
          IF Listed(cur[r]) THEN Append(@, XmlName(cur[r])) ELSE @]
    /\ h' = [h EXCEPT
          ![r].jobs = @ \cup {<<cur[r], JobLevel(cur[r], last_dialogue_level[r])>>},
          ![r].xmls = @ \cup {cur[r]},
          ![r].foreign = @ \cup Foreign(r,
                {f \in outDir : Name(f) = XmlName(cur[r])})]
    /\ Goto(r, "dee")
    /\ UNCHANGED <<utilVars, binDir, yaml, scriptDir, inDir, args, info, exitCode, toolIdx, scanVars,
                   decode_cmd, fileVars, cur, procVars, log>>

\* run_dee, lines 102-103: Popen either raises (the handler of line 141
\* reports it and run_dee returns) or starts the encoder.
DeeStart(r) ==
    /\ pc[r] = "dee"
    /\ \/ /\ Say(r, {"dee_failed"})
          /\ Note(r, "returned", h[r].returned \cup {cur[r]})
          /\ Goto(r, "rename")
          /\ UNCHANGED <<spawned, alive>>
       \/ /\ Spawn(r, {cur[r]})
          /\ alive' = [alive EXCEPT ![r] = @ \cup {cur[r]}]
          /\ NoteAdd(r, "foreign", Foreign(r,
                {f \in outDir : Name(f) \in {XmlName(cur[r]), JobInput(r, cur[r])}}))
          /\ Goto(r, "stream")
          /\ UNCHANGED log
    /\ UNCHANGED <<utilVars, binDir, yaml, fsVars, args, info, exitCode, toolIdx, scanVars, decode_cmd,
                   fileVars, cleanup_targets, cur, terminated>>

\* The interrupt handler returning to the caller instead of exiting.
DeeCancelReturns(stage) == "rename"

\* run_dee, lines 131-135: where control goes after a KeyboardInterrupt.
\* sys.exit(1) comes first; process.terminate() and return are never reached.
DeeCancelPc(stage) == "exited"

\* What the encoder may have left under its output name when it stops.
EncoderWrites(dir, r, stage, wrote) ==
    IF wrote THEN WriteFile(dir, EncoderOutput(stage), r) ELSE dir

\* run_dee, lines 104-147, from the first line read to the return.
DeeStream(r) ==
    /\ pc[r] = "stream"
    /\ \E wrote \in BOOLEAN :
        /\ outDir' = EncoderWrites(outDir, r, cur[r], wrote)
        /\ \/ \* end of output, process.wait() (137): the exit code is dropped
              /\ \E code \in {0, 1} :
                    /\ code = 0 => wrote
                    /\ h' = [h EXCEPT ![r].deeExit = @ \cup {<<cur[r], code>>},
                                      ![r].returned = @ \cup {cur[r]}]
              /\ alive' = [alive EXCEPT ![r] = @ \ {cur[r]}]
              /\ Say(r, {"finished"})
              /\ Goto(r, "rename")
              /\ UNCHANGED exitCode
           \/ \* KeyboardInterrupt (131-133), then the finally clause (143-147)
              /\ Say(r, {"canceled"})
              /\ NoteAdd(r, "canceled", {cur[r]})
              /\ pc' = [pc EXCEPT ![r] = DeeCancelPc(cur[r])]
              /\ exitCode' = [exitCode EXCEPT ![r] =
                    IF DeeCancelPc(cur[r]) = "exited" THEN 1 ELSE @]
              /\ UNCHANGED alive
           \/ \* any other exception while streaming (141-142): reported, the
              \* child gets terminate() without a wait, run_dee returns
              /\ Say(r, {"dee_failed"})
              /\ Note(r, "returned", h[r].returned \cup {cur[r]})
              /\ Goto(r, "rename")
              /\ UNCHANGED <<alive, exitCode>>
    /\ terminated' = [terminated EXCEPT ![r] = @ \cup {cur[r]}]
    /\ UNCHANGED <<utilVars, binDir, yaml, scriptDir, inDir, args, info, toolIdx, scanVars, decode_cmd,
                   fileVars, cleanup_targets, cur, spawned>>

\* Cleanup straight after the 5.1 stage, whatever the mode.
NextStageCleansUpEarly(stage, mode) == "cleanup"

\* The stage after `stage` was renamed (634) and "cleanup" after the last.
NextStage(stage, mode) ==
    IF stage = "a51" /\ mode \in {"7.1", "both"} THEN "a71" ELSE "cleanup"

\* The rename without the removal of an existing dst: both files stay.
rename_keeping_dst(dir, src, dst) ==
    IF Exists(dir, src)
    THEN Without(dir, src) \cup {<<dst[1], dst[2], Owner(dir, src)>>}
    ELSE dir

\* The rename that, failing, also takes the Atmos files away.
rename_rolling_back(dir, src, dst) ==
    LET cleared == Without(dir, dst)
    IN  IF Exists(cleared, src)
        THEN Without(cleared, src) \cup {<<dst[1], dst[2], Owner(cleared, src)>>}
        ELSE cleared \ EndsWith(cleared, AtmosExts)

\* safe_rename (49-52): dst is removed if it exists, then src is renamed;
\* os.rename raises when src does not exist.
safe_rename(dir, src, dst) ==
    LET cleared == Without(dir, dst)
    IN  IF Exists(cleared, src)
        THEN Without(cleared, src) \cup {<<dst[1], dst[2], Owner(cleared, src)>>}
        ELSE cleared

Rename(r) ==
    /\ pc[r] = "rename"
    /\ LET src == EncoderOutput(cur[r])
           dst == FinalName(r, cur[r])
       IN /\ outDir' = safe_rename(outDir, src, dst)
          /\ IF Exists(Without(outDir, dst), src)
             THEN /\ h' = [h EXCEPT
                        ![r].renameCalled = @ \cup {cur[r]},
                        ![r].renamed = @ \cup {cur[r]},
                        ![r].replaced = @ \cup
                            (IF Exists(outDir, dst) THEN {cur[r]} ELSE {}),
                        ![r].foreign = @ \cup Foreign(r,
                            {f \in outDir : Name(f) \in {src, dst}})]
                  /\ IF NextStage(cur[r], args[r].atmos_mode) = "cleanup"
                     THEN Goto(r, "cleanup") /\ UNCHANGED cur
                     ELSE /\ cur' = [cur EXCEPT ![r] =
                                NextStage(cur[r], args[r].atmos_mode)]
                          /\ Goto(r, "xml")
                  /\ UNCHANGED <<exitCode, log>>
             ELSE /\ h' = [h EXCEPT
                        ![r].renameCalled = @ \cup {cur[r]},
                        ![r].foreign = @ \cup Foreign(r,
                            {f \in outDir : Name(f) = dst})]
                  /\ Say(r, {"traceback"})
                  /\ SysExit(r, 1)
                  /\ UNCHANGED cur
    /\ UNCHANGED <<utilVars, binDir, yaml, scriptDir, inDir, args, info, toolIdx, scanVars, decode_cmd,
                   fileVars, cleanup_targets, procVars>>

\* ------------------------------------------------------------------ cleanup
\* remove_files (57-60): every file of the folder with one of the suffixes.
remove_files(dir, exts) == dir \ EndsWith(dir, exts)

\* The sweep taking the main .atmos file only.
CleanupMainFileOnly(stage) == IF stage = "ddp" THEN {"wav"} ELSE {"atmos"}

\* The suffixes handed to remove_files at lines 420-430, 651 and 681; the
\* XML of the MLP stage is removed by name with them.
CleanupExts(stage) == IF stage = "ddp" THEN {"wav"} ELSE AtmosExts

\* The files os.remove is called on, in order (652-653, 682); none for the
\* MLP stage.
RemoveList(stage, targets) ==
    CASE stage = "ddp" -> <<XmlName("ddp")>>
      [] stage = "mlp" -> <<>>
      [] OTHER -> targets

\* os.remove on each name in turn: stops at the first one that is absent.
RECURSIVE RemoveEach(_, _)
RemoveEach(dir, names) ==
    IF names = <<>> THEN <<dir, TRUE>>
    ELSE IF ~Exists(dir, Head(names)) THEN <<dir, FALSE>>
    ELSE RemoveEach(Without(dir, Head(names)), Tail(names))

Cleanup(r) ==
    /\ pc[r] = "cleanup"
    /\ LET swept == remove_files(outDir, CleanupExts(cur[r]))
           byName == IF cur[r] = "mlp" THEN Without(swept, XmlName("mlp")) ELSE swept
           res == RemoveEach(byName, RemoveList(cur[r], cleanup_targets[r]))
       IN /\ outDir' = res[1]
          /\ NoteAdd(r, "foreign", Foreign(r, outDir \ res[1]))
          /\ IF res[2]
             THEN SysExit(r, 0) /\ UNCHANGED log
             ELSE SysExit(r, 1) /\ Say(r, {"traceback"})
    /\ UNCHANGED <<utilVars, binDir, yaml, scriptDir, inDir, args, info, toolIdx, scanVars, decode_cmd,
                   fileVars, cleanup_targets, cur, procVars>>

\* ------------------------------------------------- DDP 5.1 branch (655-663)
\* run_ffmpeg_with_progress up to Popen (226-252).
DdpResample(r) ==
    /\ pc[r] = "ddp_check"
    /\ \/ \* lines 656-658
          /\ decoded_audio_file[r] = NoFile
          /\ Say(r, {"no_wav"})
          /\ SysExit(r, 1)
          /\ UNCHANGED <<spawned, alive, h>>
       \/ \* ffprobe prints no duration: float("") raises
          /\ decoded_audio_file[r] # NoFile
          /\ Spawn(r, {"ffprobe"})
          /\ Say(r, {"traceback"})
          /\ SysExit(r, 1)
          /\ UNCHANGED <<alive, h>>
       \/ /\ decoded_audio_file[r] # NoFile
          /\ Spawn(r, {"ffprobe", "ffmpeg"})
          /\ alive' = [alive EXCEPT ![r] = @ \cup {"ffmpeg"}]
          /\ NoteAdd(r, "foreign", Foreign(r,
                {f \in outDir : Name(f) = decoded_audio_file[r]}))
          /\ Goto(r, "ffmpeg")
          /\ UNCHANGED <<exitCode, log>>
    /\ UNCHANGED <<utilVars, binDir, yaml, fsVars, args, info, toolIdx, scanVars, decode_cmd,
                   fileVars, cleanup_targets, cur, terminated>>

\* run_ffmpeg_with_progress, lines 264-268: the children terminate() is
\* called on after a KeyboardInterrupt.  sys.exit(1) comes first.
FfmpegCancelTerminates == {}

\* run_ffmpeg_with_progress from the first line read (254-271), then
\* os.replace (663).
FfmpegStream(r) ==
    /\ pc[r] = "ffmpeg"
    /\ \/ /\ alive' = [alive EXCEPT ![r] = @ \ {"ffmpeg"}]
          /\ \E wrote \in BOOLEAN :
                IF wrote
                THEN /\ outDir' = WriteFile(outDir, decoded_audio_file[r], r)
                     /\ Goto(r, "xml")
                     /\ UNCHANGED <<exitCode, log>>
                ELSE /\ Say(r, {"traceback"})
                     /\ SysExit(r, 1)
                     /\ UNCHANGED outDir
          /\ UNCHANGED <<terminated, h>>
       \/ /\ Say(r, {"canceled"})
          /\ NoteAdd(r, "canceled", {"ffmpeg"})
          /\ terminated' = [terminated EXCEPT ![r] = @ \cup FfmpegCancelTerminates]
          /\ SysExit(r, 1)
          /\ UNCHANGED <<alive, outDir>>
    /\ UNCHANGED <<utilVars, binDir, yaml, scriptDir, inDir, args, info, toolIdx, scanVars, decode_cmd,
                   fileVars, cleanup_targets, cur, spawned>>

\* --------------------------------------------- TrueHD Atmos workflow (320-387)
TInput(r) ==
    /\ pc[r] = "t_input"
    /\ \/ \* lines 321-323
          /\ args[r].input = "missing"
          /\ Say(r, {"bad_input"})
          /\ SysExit(r, 1)
       \/ \* check_same_disk (339)
          /\ args[r].input = "folder"
          /\ Say(r, {"different_disk"})
          /\ SysExit(r, 1)
       \/ /\ args[r].input \in {"file", "badfile"}
          /\ Goto(r, "adm")
          /\ UNCHANGED <<exitCode, log>>
       \/ /\ args[r].input = "folder"
          /\ Goto(r, "t_move")
          /\ UNCHANGED <<exitCode, log>>
    /\ UNCHANGED <<utilVars, binDir, yaml, fsVars, args, info, toolIdx, scanVars, decode_cmd,
                   fileVars, cleanup_targets, cur, procVars, h>>

\* run_adm_to_atmos up to Popen (149-187): a failing ffprobe is only warned
\* about.
AdmStart(r) ==
    /\ pc[r] = "adm"
    /\ Spawn(r, {"ffprobe", "adm"})
    /\ alive' = [alive EXCEPT ![r] = @ \cup {"adm"}]
    /\ Goto(r, "adm_stream")
    /\ UNCHANGED <<utilVars, binDir, yaml, fsVars, args, info, exitCode, toolIdx, scanVars, decode_cmd,
                   fileVars, cleanup_targets, cur, terminated, log, h>>

\* What the converter leaves in the working directory.
AdmOutput == {<<"output", e>> : e \in AtmosExts}

\* run_adm_to_atmos, lines 209-212: the children terminate() is called on
\* after a KeyboardInterrupt.
AdmCancelTerminates == {"adm"}

\* run_adm_to_atmos from the first line read (188-214).
AdmStream(r) ==
    /\ pc[r] = "adm_stream"
    /\ \/ /\ alive' = [alive EXCEPT ![r] = @ \ {"adm"}]
          /\ \E ok \in BOOLEAN :
                scriptDir' = IF ok THEN WriteAll(scriptDir, AdmOutput, r) ELSE scriptDir
          /\ Goto(r, "t_move")
          /\ UNCHANGED <<exitCode, log, terminated, h>>
       \/ /\ Say(r, {"canceled"})
          /\ NoteAdd(r, "canceled", {"adm"})
          /\ terminated' = [terminated EXCEPT ![r] = @ \cup AdmCancelTerminates]
          /\ SysExit(r, 1)
          /\ UNCHANGED <<alive, scriptDir>>
    /\ UNCHANGED <<utilVars, binDir, yaml, outDir, inDir, args, info, toolIdx, scanVars, decode_cmd,
                   fileVars, cleanup_targets, cur, spawned>>

\* Lines 352-387: the Atmos files of the working directory (after a
\* conversion) or of the input folder are moved to OUTPUT_DIR, the last .atmos
\* file of the listing becomes decoded_atmos_file and is patched.
TMove(r) ==
    /\ pc[r] = "t_move"
    /\ LET fromFolder == args[r].input = "folder"
           files == EndsWith(IF fromFolder THEN inDir[r] ELSE scriptDir, AtmosExts)
           mains == EndsWith(files, {"atmos"})
           moved == {g \in outDir : Name(g) \notin Names(files)} \cup files
       IN /\ outDir' = moved
          /\ scriptDir' = IF fromFolder THEN scriptDir ELSE scriptDir \ files
          /\ inDir' = [inDir EXCEPT ![r] = IF fromFolder THEN @ \ files ELSE @]
          /\ \/ /\ mains = {}
                /\ Say(r, {"no_atmos_after_conversion"})
                /\ SysExit(r, 1)
                /\ UNCHANGED <<decoded_atmos_file, cur, yaml>>
                /\ h' = [h EXCEPT
                      ![r].placed = Names(files),
                      ![r].organized = TRUE,
                      ![r].foreign = @ \cup Foreign(r, files)
                                       \cup Foreign(r, outDir \ moved)]
             \/ \E main \in mains :
                LET res == transform_atmos_file_inplace(yaml[main[3]])
                    call == [owner |-> main[3], before |-> yaml[main[3]],
                             after |-> res.data, changed |-> res.changed,
                             written |-> res.written]
                IN
                /\ decoded_atmos_file' = [decoded_atmos_file EXCEPT ![r] = Name(main)]
                /\ yaml' = [yaml EXCEPT ![main[3]] = res.data]
                /\ Say(r, {IF res.changed THEN "transformed" ELSE "no_changes"})
                /\ cur' = [cur EXCEPT ![r] = "mlp"]
                /\ Goto(r, "xml")
                /\ UNCHANGED exitCode
                /\ h' = [h EXCEPT
                      ![r].placed = Names(files),
                      ![r].organized = TRUE,
                      ![r].patched = TRUE,
                      ![r].patch = <<call>>,
                      ![r].foreign = @ \cup Foreign(r, files)
                                       \cup Foreign(r, outDir \ moved)]
    /\ UNCHANGED <<utilVars, binDir, args, info, toolIdx, scanVars, decode_cmd,
                   decoded_audio_file, cleanup_targets, procVars>>

\* ---------------------------------------------------------- specification
Step(r) ==
    \/ CheckTool(r)
    \/ ClassifyInput(r)
    \/ Analyze(r)
    \/ Decode(r)
    \/ Organize(r)
    \/ Patch(r)
    \/ CreateXml(r)
    \/ DeeStart(r)
    \/ DeeStream(r)
    \/ Rename(r)
    \/ Cleanup(r)
    \/ DdpResample(r)
    \/ FfmpegStream(r)
    \/ TInput(r)
    \/ AdmStart(r)
    \/ AdmStream(r)
    \/ TMove(r)

Next == \E r \in Runs : Step(r)

Spec == Init /\ [][Next]_vars

\* Two runs of different base names started side by side on the same script
\* and output directories, all binaries present: the first an Atmos or a
\* non-Atmos .thd file or an ADM file for the TrueHD workflow, the second an
\* Atmos .thd file.
AtmosInfo == <<<<"atmos", 1>>>>

TwoRunScenarios ==
    {sc \in Scenarios(1) :
        /\ sc.args.input = "file" /\ ~sc.args.disable_dbfs
        /\ sc.args.atmos_mode = "both"
        /\ sc.info \in {<<>>, AtmosInfo}}

InitTwo ==
    /\ binDir = Tools
    /\ scriptDir = {}
    /\ outDir = {}
    /\ yaml = [o \in Owners |-> StandardYaml]
    /\ \E s \in TwoRunScenarios :
          InitWith(<<s, [args |-> IdleArgs, folder |-> {}, info |-> AtmosInfo]>>, Runs)

SpecTwo == InitTwo /\ [][Next]_vars

\* One run with all binaries present and longer info output: a .thd file whose
\* info output is an optional "Dolby Atmos ... true" line followed by up to
\* MaxScanLines presentation and dialogue-level lines, or an ADM file for the
\* TrueHD workflow.
ScanLineKinds ==
    InfoLines \ {<<"atmos", 1>>, <<"atmos", 0>>, <<"atmos", 2>>, <<"dial", 3>>,
                 <<"other", 0>>}

ScanOutputs ==
    {prefix \o q : prefix \in {<<>>, AtmosInfo},
                   q \in SeqsUpTo(ScanLineKinds, MaxScanLines)}

ScanScenarios ==
    {[args |-> a, folder |-> {}, info |-> i] :
        a \in {x \in ArgSet : /\ x.input = "file" /\ ~x.truehd_atmos
                               /\ x.atmos_mode = "5.1"},
        i \in ScanOutputs}
    \cup {[args |-> [IdleArgs EXCEPT !.truehd_atmos = TRUE],
           folder |-> {}, info |-> <<>>]}

InitScan ==
    /\ binDir = Tools
    /\ scriptDir \in StrayChoices
    /\ outDir = {}
    /\ yaml = [o \in Owners |-> StandardYaml]
    /\ \E s \in ScanScenarios : InitWith(<<s, IdleScenario>>, {1})

SpecScan == InitScan /\ [][Next]_vars

\* ------------------------------------------------ progress display (69-82)
\* Percentages are kept in tenths of a percent (250 is 25.0 %), loudness in
\* tenths of a dB, elapsed time in seconds.

\* The default of show_progress's parameter `length` (line 75).
length == 40

\* int(x) for the fraction num/den, den > 0: truncation toward zero.
PyTrunc(num, den) == IF num >= 0 THEN num \div den ELSE -((-num) \div den)

\* int(round(x)) for x given in tenths: round half to even.
PyRound(tenths) ==
    LET floor == tenths \div 10
        rest == tenths % 10
    IN  IF rest < 5 THEN floor
        ELSE IF rest > 5 THEN floor + 1
        ELSE IF floor % 2 = 0 THEN floor ELSE floor + 1

\* s * n for a one-character string s: its length.
PyRepeat(n) == IF n < 0 THEN 0 ELSE n

\* The total time estimate returned without subtracting the time elapsed.
estimate_total(elapsed, progress) ==
    IF progress <= 0 THEN 0 ELSE PyTrunc(elapsed * 1000, progress)

\* estimate_remaining (69-73): total = elapsed / (progress / 100), then
\* int(total - elapsed).
estimate_remaining(elapsed, progress) ==
    IF progress <= 0 THEN 0
    ELSE PyTrunc(elapsed * 1000 - elapsed * progress, progress)

\* show_progress (75-82): the numbers of filled and of unfilled cells of
\* the bar, filled = int(length * progress // 100).
show_progress(progress) ==
    LET filled == (length * progress) \div 1000
    IN  <<PyRepeat(filled), PyRepeat(length - filled)>>

\* A computed percentage passed on as it is.
PercentNotClamped(raw) == raw

\* min(100, raw) of lines 202 and 260.
ClampPercent(raw) == IF raw > 1000 THEN 1000 ELSE raw

\* Every loudness line setting the dialnorm value.
LoudnessAlwaysApplies(dialnorm_value) == TRUE

\* Line 121: if dialnorm_value is None.
LoudnessApplies(dialnorm_value) == dialnorm_value = None

\* What the streaming functions read, by what they find in a line:
\*   <<"progress", p>>  run_dee: "Overall progress: p", a percentage
\*   <<"loudness", l>>  run_dee: "[Source loudness] ... measured_loudness=l"
\*   <<"time", p>>      run_ffmpeg_with_progress: "time=h:m:s", p the
\*                      percentage current_time / total_duration * 100
\*   <<"size", p>>      run_adm_to_atmos: any line, p the percentage
\*                      current_size / estimated_size_bytes * 100
\*   <<"other", 0>>     run_dee, run_ffmpeg_with_progress: anything else
DeeLines ==
    {<<"progress", 0>>, <<"progress", 5>>, <<"progress", 250>>, <<"progress", 999>>,
     <<"progress", 1000>>, <<"loudness", -275>>, <<"loudness", -265>>,
     <<"loudness", -231>>, <<"other", 0>>}
FfmpegLines ==
    {<<"time", 0>>, <<"time", 333>>, <<"time", 1000>>, <<"time", 1042>>,
     <<"other", 0>>}
AdmLines == {<<"size", 0>>, <<"size", 24>>, <<"size", 987>>, <<"size", 1310>>}

\* run_dee, lines 105-129: the loop body for one line read at time
\* `elapsed`.
run_dee_line(st, line, elapsed) ==
    LET zero == st.last_dialogue_level = PyInt(0)
    IN  IF line[1] = "progress"
        THEN [st EXCEPT
                !.progress = line[2],
                !.elapsed = elapsed,
                !.remaining = estimate_remaining(elapsed, line[2]),
                !.extra_info = IF ~zero THEN st.last_dialogue_level
                               ELSE st.dialnorm_value,
                !.bar = show_progress(line[2]),
                !.line = line, !.n = st.n + 1]
        ELSE IF line[1] = "loudness" /\ LoudnessApplies(st.dialnorm_value)
        THEN IF zero
             THEN [st EXCEPT
                     !.dialnorm_value = PyInt(PyRound(line[2])),
                     !.elapsed = elapsed,
                     !.remaining = estimate_remaining(elapsed, st.progress),
                     !.extra_info = PyInt(PyRound(line[2])),
                     !.bar = show_progress(st.progress),
                     !.line = line, !.n = st.n + 1]
             ELSE [st EXCEPT
                     !.dialnorm_value = PyInt(PyRound(line[2])),
                     !.line = line, !.n = st.n + 1]
        ELSE [st EXCEPT !.line = line, !.n = st.n + 1]

\* run_ffmpeg_with_progress, lines 254-263.
run_ffmpeg_line(st, line, elapsed) ==
    IF line[1] = "time"
    THEN LET progress == ClampPercent(line[2])
         IN [st EXCEPT
                !.progress = progress,
                !.elapsed = elapsed,
                !.remaining = estimate_remaining(elapsed, progress),
                !.bar = show_progress(progress),
                !.line = line, !.n = st.n + 1]
    ELSE [st EXCEPT !.line = line, !.n = st.n + 1]

\* run_adm_to_atmos, lines 197-205: percent_size and remaining_sec.
run_adm_line(st, line, elapsed) ==
    LET percent_size == ClampPercent(line[2])
    IN [st EXCEPT
          !.progress = percent_size,
          !.elapsed = elapsed,
          !.remaining = IF percent_size > 0
                        THEN PyTrunc(elapsed * (1000 - percent_size), percent_size)
                        ELSE 0,
          !.bar = show_progress(percent_size),
          !.line = line, !.n = st.n + 1]

DeeLine ==
    /\ stream.fn = "dee"
    /\ stream.n < MaxStreamLines
    /\ \E line \in DeeLines : \E elapsed \in stream.elapsed..MaxElapsed :
          stream' = run_dee_line(stream, line, elapsed)
    /\ UNCHANGED <<runVars, renameCall, pipe>>

FfmpegLine ==
    /\ stream.fn = "ffmpeg"
    /\ stream.n < MaxStreamLines
    /\ \E line \in FfmpegLines : \E elapsed \in stream.elapsed..MaxElapsed :
          stream' = run_ffmpeg_line(stream, line, elapsed)
    /\ UNCHANGED <<runVars, renameCall, pipe>>

AdmLine ==
    /\ stream.fn = "adm"
    /\ stream.n < MaxStreamLines
    /\ \E line \in AdmLines : \E elapsed \in stream.elapsed..MaxElapsed :
          stream' = run_adm_line(stream, line, elapsed)
    /\ UNCHANGED <<runVars, renameCall, pipe>>

\* ------------------------------------------- safe_rename on two paths (49-52)
\* os.rename(src, dst): raises for a missing src and across devices.
os_rename(m) ==
    IF m.atSrc = "none" THEN [m EXCEPT !.raised = "ENOENT"]
    ELSE IF m.srcDev # m.dstDev THEN [m EXCEPT !.raised = "EXDEV"]
    ELSE [m EXCEPT !.atSrc = "none", !.atDst = m.atSrc]

\* safe_rename (49-52) on what is at src and at dst.
safe_rename_paths(m) ==
    os_rename(IF m.atDst # "none" THEN [m EXCEPT !.atDst = "none"] ELSE m)

SafeRenameCall ==
    /\ renameCall.calls = 0
    /\ renameCall' = [safe_rename_paths(renameCall) EXCEPT !.calls = 1]
    /\ UNCHANGED <<runVars, stream, pipe>>

\* A streaming function of any kind started with any dialogue level, and a
\* call of safe_rename on any two paths; no run of main.py.
InitUtil ==
    /\ binDir = Tools
    /\ scriptDir = {}
    /\ outDir = {}
    /\ yaml = [o \in Owners |-> StandardYaml]
    /\ args = [r \in Runs |-> IdleArgs]
    /\ inDir = [r \in Runs |-> {}]
    /\ info = [r \in Runs |-> <<>>]
    /\ pc = [r \in Runs |-> "off"]
    /\ exitCode = [r \in Runs |-> -1]
    /\ toolIdx = [r \in Runs |-> 1]
    /\ atmos_flag = [r \in Runs |-> "None"]
    /\ last_presentation_num = [r \in Runs |-> None]
    /\ last_dialogue_level = [r \in Runs |-> None]
    /\ decode_cmd = [r \in Runs |-> NoCmd]
    /\ decoded_atmos_file = [r \in Runs |-> NoFile]
    /\ decoded_audio_file = [r \in Runs |-> NoFile]
    /\ cleanup_targets = [r \in Runs |-> <<>>]
    /\ cur = [r \in Runs |-> "none"]
    /\ spawned = [r \in Runs |-> {}]
    /\ alive = [r \in Runs |-> {}]
    /\ terminated = [r \in Runs |-> {}]
    /\ log = [r \in Runs |-> {}]
    /\ h = [r \in Runs |-> HistInit]
    /\ \E fn \in {"dee", "ffmpeg", "adm"} :
       \E level \in {PyInt(0), PyStr(-31), PyStr(-27), None} :
          stream = [NoStream EXCEPT !.fn = fn, !.last_dialogue_level = level]
    /\ \E sd \in {1, 2}, dd \in {1, 2} :
       \E s \in {"none", "new"}, d \in {"none", "old"} :
          renameCall = [NoMove EXCEPT !.srcDev = sd, !.dstDev = dd,
                                      !.atSrc = s, !.atDst = d]
    /\ pipe = NoPipe

NextUtil == DeeLine \/ FfmpegLine \/ AdmLine \/ SafeRenameCall

SpecUtil == InitUtil /\ [][NextUtil]_vars

\* ------------------------------- a streamed child process and its pipes
\* Where Popen connects a descriptor of the child: run_dee (103) gives it a
\* pipe each for stdout and stderr, run_ffmpeg_with_progress (252) discards
\* stdout and pipes stderr, run_adm_to_atmos (187) sends both to one pipe.
PipeOf(fn, fd) ==
    CASE fn = "dee" -> IF fd = "fd1" THEN "stdout" ELSE "stderr"
      [] fn = "ffmpeg" -> IF fd = "fd1" THEN "devnull" ELSE "stderr"
      [] OTHER -> "stdout"

\* The pipe the loop of the function reads (105, 255, 190).
ReadPipe(fn) == IF fn = "ffmpeg" THEN "stderr" ELSE "stdout"

\* Whether the loop may leave before the end of the output: the break of
\* run_adm_to_atmos at 100 % (206-207).
BreaksEarly(fn) == fn = "adm"

\* The child writes a line to a descriptor: at once to the null device, to
\* a pipe only while the pipe has room.
ChildWrite ==
    /\ pipe.child = "running"
    /\ \E fd \in {"fd1", "fd2"} :
          LET to == PipeOf(pipe.fn, fd)
          IN  /\ pipe.pending[fd] > 0
              /\ to # "devnull" => pipe.buf[to] < PipeCapacity
              /\ pipe' = [pipe EXCEPT
                            !.pending[fd] = @ - 1,
                            !.buf = IF to = "devnull" THEN @
                                    ELSE [@ EXCEPT ![to] = @ + 1]]
    /\ UNCHANGED <<runVars, stream, renameCall>>

\* The child exits once it has written all its output.
ChildExit ==
    /\ pipe.child = "running"
    /\ pipe.pending.fd1 = 0 /\ pipe.pending.fd2 = 0
    /\ pipe' = [pipe EXCEPT !.child = "exited"]
    /\ UNCHANGED <<runVars, stream, renameCall>>

\* One turn of the loop (105, 190, 255): a line is taken from the pipe
\* that is read; in run_adm_to_atmos the line may end the loop (206-207).
PipeReadLine ==
    /\ pipe.reader = "reading"
    /\ pipe.buf[ReadPipe(pipe.fn)] > 0
    /\ \E reached_100 \in {b \in BOOLEAN : b => BreaksEarly(pipe.fn)} :
          pipe' = [pipe EXCEPT
                     !.buf[ReadPipe(pipe.fn)] = @ - 1,
                     !.reader = IF reached_100 THEN "waiting" ELSE @]
    /\ UNCHANGED <<runVars, stream, renameCall>>

\* The loop ends at the end of the output: the pipe is empty and the child
\* has exited (end of file at 105 and 255, poll() at 192).
PipeReadEnd ==
    /\ pipe.reader = "reading"
    /\ pipe.buf[ReadPipe(pipe.fn)] = 0
    /\ pipe.child = "exited"
    /\ pipe' = [pipe EXCEPT !.reader = "waiting"]
    /\ UNCHANGED <<runVars, stream, renameCall>>

\* process.wait() (137, 214, 270) returns when the child has exited.
PipeWait ==
    /\ pipe.reader = "waiting"
    /\ pipe.child = "exited"
    /\ pipe' = [pipe EXCEPT !.reader = "returned"]
    /\ UNCHANGED <<runVars, stream, renameCall>>

\* A streaming function of any kind just after Popen, the child having any
\* amount of output to write to its two descriptors; no run of main.py.
InitPipe ==
    /\ binDir = Tools
    /\ scriptDir = {}
    /\ outDir = {}
    /\ yaml = [o \in Owners |-> StandardYaml]
    /\ args = [r \in Runs |-> IdleArgs]
    /\ inDir = [r \in Runs |-> {}]
    /\ info = [r \in Runs |-> <<>>]
    /\ pc = [r \in Runs |-> "off"]
    /\ exitCode = [r \in Runs |-> -1]
    /\ toolIdx = [r \in Runs |-> 1]
    /\ atmos_flag = [r \in Runs |-> "None"]
    /\ last_presentation_num = [r \in Runs |-> None]
    /\ last_dialogue_level = [r \in Runs |-> None]
    /\ decode_cmd = [r \in Runs |-> NoCmd]
    /\ decoded_atmos_file = [r \in Runs |-> NoFile]
    /\ decoded_audio_file = [r \in Runs |-> NoFile]
    /\ cleanup_targets = [r \in Runs |-> <<>>]
    /\ cur = [r \in Runs |-> "none"]
    /\ spawned = [r \in Runs |-> {}]
    /\ alive = [r \in Runs |-> {}]
    /\ terminated = [r \in Runs |-> {}]
    /\ log = [r \in Runs |-> {}]
    /\ h = [r \in Runs |-> HistInit]
    /\ stream = NoStream
    /\ renameCall = NoMove
    /\ \E fn \in {"dee", "ffmpeg", "adm"} :
       \E n1 \in 0..MaxOutput, n2 \in 0..MaxOutput :
          pipe = [NoPipe EXCEPT !.fn = fn,
                                !.pending = [fd1 |-> n1, fd2 |-> n2],
                                !.child = "running", !.reader = "reading"]

NextPipe == ChildWrite \/ ChildExit \/ PipeReadLine \/ PipeReadEnd \/ PipeWait

\* The operating system keeps both processes running: a step that stays
\* possible is eventually taken.
SpecPipe ==
    /\ InitPipe /\ [][NextPipe]_vars
    /\ WF_vars(ChildWrite) /\ WF_vars(ChildExit)
    /\ WF_vars(PipeReadLine) /\ WF_vars(PipeReadEnd) /\ WF_vars(PipeWait)

\* ------------------------------------------------------------------- claims
Encoders == Stages
Exited(r) == pc[r] = "exited"

\* C1: when a required tool is missing the run exits with status 1 and has
\* started no subprocess before that exit, whichever tool is the missing one.
C1_ToolMissingExitsBeforeAnySpawn ==
    \A r \in Runs :
        "missing_tool" \in log[r] => exitCode[r] = 1 /\ spawned[r] = {}

\* C2: in atmos-mode "both" every Atmos file the run placed in the output
\* directory is there in every state up to the end of the 7.1 stage: it is
\* absent only once the 7.1 encode has returned and its output was renamed.
C2_TripleKeptUntil71Done ==
    \A r \in Runs :
        (~args[r].truehd_atmos /\ args[r].atmos_mode = "both") =>
            \A n \in h[r].placed :
                ~Exists(outDir, n) => {"a51", "a71"} \subseteq h[r].renamed

\* C2 witness: the 5.1 encode has ended, the 7.1 encoder is running, and the
\* whole triple is in the output directory.
C2_Witness ==
    \E r \in Runs :
        /\ args[r].atmos_mode = "both" /\ ~args[r].truehd_atmos
        /\ "a51" \in h[r].returned /\ pc[r] = "stream" /\ cur[r] = "a71"
        /\ Cardinality(h[r].placed) = 3
        /\ \A n \in h[r].placed : Exists(outDir, n)

\* C3: decode and metadata patch are over before any encoder starts, in
\* "both" mode the 5.1 stage (rename included) is over before the 7.1 encoder
\* starts, and a run never has two encoders alive.
C3_StagesStrictlySequential ==
    \A r \in Runs :
        /\ spawned[r] \cap Encoders # {} =>
              /\ h[r].patched
              /\ (args[r].input = "file" /\ ~args[r].truehd_atmos) => h[r].decoded
        /\ {"a51", "a71"} \subseteq spawned[r] =>
              "a51" \in h[r].renamed /\ "a51" \notin alive[r]
        /\ Cardinality(alive[r] \cap Encoders) <= 1

\* C4: an encoder that exits with a non-zero code ends the run with status 1:
\* the rename of that stage is not called and no later encoder is started.
C4_EncoderFailureIsFatal ==
    \A r \in Runs : \A st \in Stages :
        <<st, 1>> \in h[r].deeExit =>
            /\ st \notin h[r].renameCalled
            /\ st = "a51" => "a71" \notin spawned[r]
            /\ Exited(r) => exitCode[r] = 1

\* C5: a run that has ended has left none of the job XML files it created.
C5_XmlGoneAtExit ==
    \A r \in Runs :
        Exited(r) => \A st \in h[r].xmls : ~Exists(outDir, XmlName(st))

\* C6: an interrupt in a streaming subprocess prints the canceled message,
\* calls terminate() on the child and ends the run with status 1.
C6_CancelTerminatesChild ==
    \A r \in Runs : \A c \in h[r].canceled :
        /\ "canceled" \in log[r]
        /\ c \in terminated[r]
        /\ Exited(r) /\ exitCode[r] = 1

\* C7: after an interrupt during an encode the run has exited with status 1,
\* safe_rename was not called for that stage and the run has written no file
\* under the deliverable's name.
C7_NoRenameAfterCancel ==
    \A r \in Runs : \A st \in h[r].canceled \cap Stages :
        /\ Exited(r) /\ exitCode[r] = 1
        /\ st \notin h[r].renameCalled
        /\ ~\E f \in outDir : Name(f) = FinalName(r, st) /\ f[3] = r

\* C7 witness: the 5.1 encode was interrupted and left its output under the
\* intermediate name.
C7_Witness ==
    \E r \in Runs :
        /\ "a51" \in h[r].canceled /\ Exited(r)
        /\ Exists(outDir, EncoderOutput("a51"))
        /\ ~Exists(outDir, FinalName(r, "a51"))

\* C8: no stage of a run moves, overwrites, removes or feeds to its encoder
\* a file written by another run.
C8_RunsNeverTouchForeignFiles ==
    \A r \in Runs : h[r].foreign = {}

\* C9: a run whose stream was analyzed as non-Atmos is never stopped for want
\* of a main .atmos file.
C9_NonAtmosRunNotStoppedAtPatch ==
    \A r \in Runs :
        "no_atmos_for_editing" \in log[r] => atmos_flag[r] = "true"

\* C10: with --disable-dbfs every job description is given dialogue level 0.
C10_DisableDbfsGivesLevelZero ==
    \A r \in Runs :
        args[r].disable_dbfs => \A j \in h[r].jobs : j[2] \in {PyInt(0), PyStr(0)}

\* ------------------------------------------------- claims on stream analysis
\* A run of the default workflow on a .thd/.mlp file whose info output was
\* scanned.
Scanned(r) ==
    h[r].analyzed /\ ~args[r].truehd_atmos /\ args[r].input = "file"

\* The state of the scan of run r after its first k lines.
ScanAfter(r, k) ==
    ScanLines(SubSeq(info[r], 1, k), args[r].disable_dbfs,
              [current |-> None, pres |-> None, level |-> None])

Max(a, b) == IF a >= b THEN a ELSE b
Last(S) == CHOOSE i \in S : \A j \in S : j <= i

\* The presentation headers before line i, and the lines with "Dialogue
\* Level" that come after some presentation header.
HeadersBefore(lines, i) == {j \in 1..(i - 1) : lines[j][1] = "pres"}
LevelLines(lines) ==
    {i \in DOMAIN lines :
        lines[i][1] \in {"dial", "dialbad"} /\ HeadersBefore(lines, i) # {}}

\* C11: with lookup enabled, after a "Dialogue Level" line whose
\* second-to-last token is the integer v, met under a presentation header,
\* the stored level is max(v, -31) (kept as its decimal string); when that
\* line is the last of its kind the run goes on with that level.
C11_StoredLevelIsClampedValue ==
    \A r \in Runs :
        (Scanned(r) /\ ~args[r].disable_dbfs) =>
            /\ \A k \in LevelLines(info[r]) :
                  info[r][k][1] = "dial" =>
                      ScanAfter(r, k).level = PyStr(Max(info[r][k][2], -31))
            /\ (LevelLines(info[r]) # {}
                  /\ info[r][Last(LevelLines(info[r]))][1] = "dial") =>
                  last_dialogue_level[r] =
                      PyStr(Max(info[r][Last(LevelLines(info[r]))][2], -31))

\* C11 witness: a scanned run whose info output is a presentation header
\* and a dialogue level of -40; the stored level is "-31".
C11_Witness ==
    \E r \in Runs :
        /\ Scanned(r) /\ ~args[r].disable_dbfs
        /\ info[r] = <<<<"pres", 0>>, <<"dial", -40>>>>
        /\ last_dialogue_level[r] = PyStr(-31)

\* C12: after stream analysis the stored dialogue level is an integer of
\* -31..0, and it is 0 when lookup is disabled or no dialogue-level line was
\* measured (a folder input has no such line).
C12_LevelIsIntegerInRange ==
    \A r \in Runs :
        (h[r].analyzed /\ ~args[r].truehd_atmos) =>
            /\ last_dialogue_level[r] # None
            /\ last_dialogue_level[r][2] \in -31..0
            /\ (\/ args[r].disable_dbfs
                \/ args[r].input = "folder"
                \/ LevelLines(info[r]) = {}) => last_dialogue_level[r][2] = 0

\* C13: a .thd/.mlp file whose info output has no "Dolby Atmos" line is
\* treated as non-Atmos: the flag is not "true", the decoder is only ever
\* started for WAV output, and no Atmos encoder is started.
C13_NoAtmosLineMeansWavPath ==
    \A r \in Runs :
        (/\ ~args[r].truehd_atmos /\ args[r].input = "file"
         /\ \A i \in DOMAIN info[r] : info[r][i][1] # "atmos") =>
            /\ atmos_flag[r] # "true"
            /\ decode_cmd[r].fmt # "atmos"
            /\ "decode" \in spawned[r] => decode_cmd[r].fmt = "w64"
            /\ spawned[r] \cap {"a51", "a71"} = {}

\* C13 witness: such a file, with some info output, decoded to WAV.
C13_Witness ==
    \E r \in Runs :
        /\ Scanned(r) /\ info[r] # <<>>
        /\ \A i \in DOMAIN info[r] : info[r][i][1] # "atmos"
        /\ h[r].decoded /\ decode_cmd[r].fmt = "w64"
        /\ Exists(scriptDir, <<"ddp_encode", "wav">>)

\* -------------------------------------------- claims on placement and patch
\* The files of `dir` named n.
Named(dir, n) == {f \in dir : Name(f) = n}

\* C14: safe_rename called while src exists, whether or not dst exists
\* already (an earlier call with the same arguments put it there), does not
\* raise and leaves exactly one file at dst: the one that was at src.
C14_SafeRenameIdempotent ==
    [][\A r \in Runs :
          LET src == EncoderOutput(cur[r])
              dst == FinalName(r, cur[r])
          IN (pc[r] = "rename" /\ pc'[r] # "rename" /\ Exists(outDir, src)) =>
                /\ pc'[r] # "exited"
                /\ cur[r] \in h'[r].renamed
                /\ Cardinality(Named(outDir', dst)) = 1
                /\ Named(outDir', dst) = {<<dst[1], dst[2], Owner(outDir, src)>>}
                /\ ~Exists(outDir', src)]_vars

\* C14 witness: the 5.1 deliverable of an earlier run was at dst when the
\* run renamed its own 5.1 output; dst now holds this run's output.
C14_Witness ==
    \E r \in Runs :
        /\ "a51" \in h[r].replaced
        /\ Named(outDir, FinalName(r, "a51")) = {<<base_name(r) \o "_atmos_5_1", "mp4", r>>}

\* C15: the metadata patch returns changed=true exactly when the bed
\* configuration of the first presentation is [0,1,2,3,6,7,4,5]; the object
\* list is then the 11 entries with IDs 10..20; in every other case, no
\* presentations included, the file is not written and keeps its content.
C15_PatchOnlyStandardBed ==
    \A r \in Runs :
        h[r].patch # <<>> =>
            LET call == h[r].patch[1]
                standard == /\ call.before.beds # <<>>
                            /\ call.before.beds[1] = <<0, 1, 2, 3, 6, 7, 4, 5>>
            IN /\ call.changed <=> standard
               /\ call.changed =>
                     /\ call.written
                     /\ Len(call.after.objects) = 11
                     /\ \A i \in 1..11 : call.after.objects[i] = 9 + i
               /\ ~call.changed => ~call.written /\ call.after = call.before
               /\ yaml[call.owner] = call.after

\* C15 witness: a patch that met the standard bed and rewrote the file.
C15_Witness ==
    \E r \in Runs :
        /\ h[r].patch # <<>>
        /\ h[r].patch[1].changed
        /\ h[r].patch[1].after.objects = <<10, 11, 12, 13, 14, 15, 16, 17, 18, 19, 20>>

\* The stages of a run that ended: the decoder and both encoders exited
\* with code 0.
AllStagesSucceeded(r) ==
    /\ Exited(r)
    /\ h[r].decodeExit = {0}
    /\ h[r].deeExit = {<<"a51", 0>>, <<"a71", 0>>}

\* C16: a run on movie.thd with Atmos detected and mode "both" in which
\* every stage succeeds ends with status 0, with movie_atmos_5_1.mp4 and
\* movie_atmos_7_1.mp4 in the output directory and no .atmos, .atmos.audio,
\* .atmos.metadata or .xml file there.
C16_BothModeDeliversAndCleansUp ==
    \A r \in Runs :
        (/\ ~args[r].truehd_atmos /\ args[r].input = "file"
         /\ args[r].atmos_mode = "both" /\ atmos_flag[r] = "true"
         /\ AllStagesSucceeded(r)) =>
            /\ exitCode[r] = 0
            /\ Exists(outDir, <<base_name(r) \o "_atmos_5_1", "mp4">>)
            /\ Exists(outDir, <<base_name(r) \o "_atmos_7_1", "mp4">>)
            /\ EndsWith(outDir, AtmosExts \cup {"xml"}) = {}

\* C16 witness: such a run has ended with status 0 and both deliverables.
C16_Witness ==
    \E r \in Runs :
        /\ args[r].atmos_mode = "both" /\ atmos_flag[r] = "true"
        /\ AllStagesSucceeded(r) /\ exitCode[r] = 0
        /\ Cardinality(h[r].placed) = 3
        /\ Exists(outDir, FinalName(r, "a51")) /\ Exists(outDir, FinalName(r, "a71"))

\* C17: an encoder is started only after all three files of the Atmos
\* triple (.atmos, .atmos.audio, .atmos.metadata of one base name) were
\* placed in the output directory.
C17_FullTripleBeforeEncode ==
    \A r \in Runs :
        spawned[r] \cap {"a51", "a71", "mlp"} # {} =>
            \E stem \in {n[1] : n \in h[r].placed} :
                \A e \in AtmosExts : <<stem, e>> \in h[r].placed

\* C18: a decoder that exits with a non-zero code ends the run with status 1;
\* no file is placed, no metadata is patched and no encoder is started.
C18_DecodeFailureIsFatal ==
    \A r \in Runs :
        1 \in h[r].decodeExit =>
            /\ Exited(r) /\ exitCode[r] = 1
            /\ ~h[r].organized /\ ~h[r].patched
            /\ spawned[r] \cap (Stages \cup {"ffmpeg"}) = {}

\* C18 witness: the decoder was started and exited with code 1.
C18_Witness ==
    \E r \in Runs :
        /\ "decode" \in spawned[r] /\ h[r].decodeExit = {1}
        /\ "decode_failed" \in log[r] /\ Exited(r)

C20_LastLevelLineWins ==
    \A r \in Runs :
        (Scanned(r) /\ ~args[r].disable_dbfs) =>
            LET lines == info[r]
                levels == LevelLines(lines)
            IN  IF levels = {}
                THEN /\ last_presentation_num[r] = None
                     /\ last_dialogue_level[r] = None
                ELSE LET k == Last(levels)
                         header == Last(HeadersBefore(lines, k))
                     IN /\ last_presentation_num[r] = PyInt(lines[header][2])
                        /\ last_dialogue_level[r] =
                              IF lines[k][1] = "dial"
                              THEN PyStr(Max(lines[k][2], -31)) ELSE PyInt(0)

\* C20 witness: two presentations, each with its dialogue level, the second
\* higher than the first: the second is stored.
C20_Witness ==
    \E r \in Runs :
        /\ Scanned(r) /\ ~args[r].disable_dbfs
        /\ info[r] = <<<<"pres", 1>>, <<"dial", -40>>, <<"pres", 0>>, <<"dial", -27>>>>
        /\ last_presentation_num[r] = PyInt(0)
        /\ last_dialogue_level[r] = PyStr(-27)

\* ------------------------------------------ claims on detection and failure
First(S) == CHOOSE i \in S : \A j \in S : i <= j
AtmosLines(lines) == {i \in DOMAIN lines : lines[i][1] = "atmos"}

\* C21: the Atmos flag is the lower-cased last token of the first info line
\* containing "Dolby Atmos"; later such lines do not change it.
C21_FirstAtmosLineDecides ==
    \A r \in Runs :
        (Scanned(r) /\ AtmosLines(info[r]) # {}) =>
            LET token == info[r][First(AtmosLines(info[r]))][2]
            IN atmos_flag[r] = CASE token = 0 -> "false"
                                 [] token = 1 -> "true"
                                 [] token = 2 -> "true"

\* C21 witness: two "Dolby Atmos" lines, the first ending in false, the
\* second in True; the flag is "false".
C21_Witness ==
    \E r \in Runs :
        /\ Scanned(r)
        /\ info[r] = <<<<"atmos", 0>>, <<"atmos", 2>>>>
        /\ atmos_flag[r] = "false"

\* C22: the decode command has a --presentation argument exactly when the
\* analysis selected a presentation, and its value is then that index,
\* index 0 included.
C22_PresentationArgumentFollowsSelection ==
    \A r \in Runs :
        "decode" \in spawned[r] =>
            decode_cmd[r].presentation =
                IF last_presentation_num[r] = None THEN None
                ELSE PyStr(last_presentation_num[r][2])

\* C23: when the info subprocess fails the run ends with status 1 and
\* neither the decode command nor an encoder is started.
C23_InfoFailureIsFatal ==
    \A r \in Runs :
        1 \in h[r].infoExit =>
            /\ Exited(r) /\ exitCode[r] = 1
            /\ spawned[r] \cap ({"decode", "ffmpeg"} \cup Stages) = {}
            /\ ~h[r].organized

\* C23 witness: the info command was started and returned 1.
C23_Witness ==
    \E r \in Runs :
        /\ "info" \in spawned[r] /\ h[r].infoExit = {1}
        /\ "info_failed" \in log[r] /\ Exited(r)

\* C24: the 7.1 output is renamed to its final name only after a fix-up
\* subprocess was run on it, and no other stage runs that subprocess.
C24_FixupBefore71Rename ==
    \A r \in Runs :
        /\ "a71" \in h[r].renamed => "fixup_7_1" \in spawned[r]
        /\ "fixup_7_1" \in spawned[r] => "a71" \in h[r].returned

\* The decode artifacts and intermediate files among `dir`.
Artifacts(dir) ==
    {f \in dir : \/ f[2] \in AtmosExts \cup {"wav", "xml"}
                 \/ \E st \in Stages : Name(f) = EncoderOutput(st)}

\* C25: a step that ends a run in failure after its decode leaves every
\* decode artifact and intermediate file of the script and output
\* directories where it was.
C25_FailureLeavesArtifacts ==
    [][\A r \in Runs :
          (/\ pc[r] # "exited" /\ pc'[r] = "exited" /\ exitCode'[r] = 1
           /\ h[r].decoded \/ h[r].organized) =>
                /\ Artifacts(outDir) \subseteq outDir'
                /\ Artifacts(scriptDir) \subseteq scriptDir']_vars

\* C25 witness: the 5.1 encoder left no output, the rename raised, and the
\* Atmos triple and the job XML are still in the output directory.
C25_Witness ==
    \E r \in Runs :
        /\ Exited(r) /\ exitCode[r] = 1
        /\ "a51" \in h[r].renameCalled \ h[r].renamed
        /\ Cardinality(h[r].placed) = 3
        /\ \A n \in h[r].placed : Exists(outDir, n)
        /\ Exists(outDir, XmlName("a51"))

\* C30: safe_rename called for a source that does not exist leaves a file
\* already present under the final name in place and unchanged.
C30_FailedEncodeKeepsDeliverable ==
    [][\A r \in Runs :
          LET src == EncoderOutput(cur[r])
              dst == FinalName(r, cur[r])
          IN (pc[r] = "rename" /\ pc'[r] # "rename" /\ ~Exists(outDir, src)) =>
                Named(outDir', dst) = Named(outDir, dst)]_vars

C27_RemainingTimeEstimate ==
    (stream.fn \in {"dee", "ffmpeg"} /\ stream.line[1] \in {"progress", "time"}) =>
        LET p == stream.progress
            e == stream.elapsed
            rem == stream.remaining
        IN /\ p <= 0 => rem = 0
           /\ (p > 0 /\ p <= 1000) =>
                 /\ rem >= 0
                 /\ rem * p <= e * (1000 - p)
                 /\ e * (1000 - p) < (rem + 1) * p

\* C27 witness: 25.0 % after 3 seconds: 9 seconds remain.
C27_Witness ==
    /\ stream.fn = "dee" /\ stream.line = <<"progress", 250>>
    /\ stream.elapsed = 3 /\ stream.remaining = 9

\* C28: the bar shown has 40 cells, filled and unfilled together, whatever
\* the streaming function and the progress value it passes.
C28_BarHasLengthCells ==
    stream.bar # <<>> =>
        /\ stream.bar[1] >= 0 /\ stream.bar[2] >= 0
        /\ stream.bar[1] + stream.bar[2] = 40

\* C28 witness: ffmpeg past the probed duration (104.2 %): 40 filled cells.
C28_Witness ==
    /\ stream.fn = "ffmpeg" /\ stream.line = <<"time", 1042>>
    /\ stream.bar = <<40, 0>>

\* The integers nearest to a value given in tenths.
Nearest(tenths) == {d \in -100..100 : 10 * d - tenths \in -5..5}

\* C29: a loudness line of the encoder output leaves the progress
\* percentage as it is, and sets the dialnorm value, to the rounded
\* loudness, only if no earlier loudness line has set it.
C29_LoudnessLineOnlySetsDialnormOnce ==
    [][(stream'.n = stream.n + 1 /\ stream'.line[1] = "loudness") =>
          /\ stream'.progress = stream.progress
          /\ stream.dialnorm_value # None =>
                stream'.dialnorm_value = stream.dialnorm_value
          /\ stream.dialnorm_value = None =>
                /\ stream'.dialnorm_value[1] = "int"
                /\ stream'.dialnorm_value[2] \in Nearest(stream'.line[2])]_vars

\* C29 witness: progress at 25.0 %, dialnorm -28 from a first loudness line
\* (-27.5), and a second loudness line (-23.1) just read.
C29_Witness ==
    /\ stream.fn = "dee" /\ stream.n = 3
    /\ stream.line = <<"loudness", -231>>
    /\ stream.dialnorm_value = PyInt(-28)
    /\ stream.progress = 250


\* C31: the metadata patch is idempotent on its outcome: whatever a file held
\* before transform_atmos_file_inplace was applied to it, applying the patch
\* again to what the file holds afterwards returns False, does not open the
\* file for writing and leaves its content as it is.
C31_PatchIsIdempotent ==
    \A r \in Runs :
        h[r].patch # <<>> =>
            LET call == h[r].patch[1]
                again == transform_atmos_file_inplace(call.after)
            IN  /\ ~again.changed
                /\ ~again.written
                /\ again.data = call.after

\* A file that the patch rewrote, holding the rewritten content.
C31_Witness ==
    \E r \in Runs :
        /\ h[r].patch # <<>>
        /\ h[r].patch[1].changed
        /\ h[r].patch[1].after # h[r].patch[1].before
        /\ yaml[h[r].patch[1].owner] = h[r].patch[1].after
        /\ ~transform_atmos_file_inplace(yaml[h[r].patch[1].owner]).changed

C33_StreamingCallReturns == <>(pipe.reader = "returned")


============================================================================
